---- MODULE Spec2Model ----
(***************************************************************************)
(* Model of modl/dict_fact.py: the DictFact estimator wrapper around the   *)
(* compiled factorization implementation DictFactImpl.                     *)
(*                                                                         *)
(* Conventions.                                                            *)
(*   - A Python value that may be None is a sequence: << >> is None and    *)
(*     <<v>> is the value v.                                               *)
(*   - A batch X is a record: rows (the sequence of its row labels, row i  *)
(*     of the caller's array carries label i), n_features (its number of   *)
(*     columns) and finite (whether every entry is finite).                *)
(*   - Floating-point hyper-parameters are carried in tenths.              *)
(*   - DictFactImpl (dict_fact_fast) is compiled code that is not part of  *)
(*     the sources at hand; its operations are modelled from its           *)
(*     description and marked Impl*.                                       *)
(***************************************************************************)
EXTENDS Integers, Sequences, FiniteSets, TLC

VARIABLES
    cfg,        \* the wrapper's attributes (DictFact.__init__)
    impl,       \* self._impl: << >> while the attribute does not exist
    pc,         \* position of the running fit call: "idle" or "fit_loop"
    fitX,       \* the dataset of the running fit call
    fitCalls,   \* partial_fit calls issued so far by the running/last fit
    last        \* the last completed call: operation, outcome, what it handed over

vars == <<cfg, impl, pc, fitX, fitCalls, last>>

----------------------------------------------------------------------------
\* Bounds of the model

MaxRows == 2
MaxFeatures == 2
MaxComponents == 2
MaxIter == 2
MaxEpochs == 2
MaxTotal == 3

----------------------------------------------------------------------------
\* Python values

None == << >>
Some(v) == <<v>>
Min(a, b) == IF a <= b THEN a ELSE b
Max(a, b) == IF a >= b THEN a ELSE b

\* np.arange(n): 0, 1, ..., n-1
Arange(n) == [i \in 1..n |-> i - 1]

\* Python/numpy basic slicing s[:k]: a negative stop counts from the end.
SliceTo(s, k) ==
    IF k >= 0 THEN SubSeq(s, 1, Min(k, Len(s)))
    ELSE SubSeq(s, 1, Max(Len(s) + k, 0))

\* sklearn.utils.check_array with its defaults: rejects non-finite entries and
\* arrays with no row or no column.
CheckArrayOk(X) == X.finite /\ Len(X.rows) >= 1 /\ X.n_features >= 1

\* dict_reduction is either a string or a number
Str(s) == [tag |-> "str", s |-> s, n |-> 0]
Num(n) == [tag |-> "num", s |-> "", n |-> n]

----------------------------------------------------------------------------
\* DictFact._get_impl_params

SolverCodes == [masked |-> 1, gram |-> 2, average |-> 3]
WeightsCodes == [sync |-> 1, async_freq |-> 2, async_prob |-> 3]
SubsetSamplingCodes == [random |-> 1, cyclic |-> 2]

\* the three dictionary lookups raise KeyError on an unknown key
ImplParamsOk(c) ==
    /\ c.solver \in DOMAIN SolverCodes
    /\ c.weights \in DOMAIN WeightsCodes
    /\ c.subset_sampling \in DOMAIN SubsetSamplingCodes

DictReduction(c) ==
    IF c.dict_reduction = Str("follow") THEN Num(0)
    ELSE IF c.dict_reduction = Str("same") THEN Num(c.reduction)
    ELSE c.dict_reduction

\* 2.5 - 2 * learning_rate, in tenths
SampleLearningRate(c) ==
    IF c.sample_learning_rate = None THEN 25 - 2 * c.learning_rate
    ELSE c.sample_learning_rate[1]

GetImplParams(c) ==
    [alpha |-> c.alpha,
     l1_ratio |-> c.l1_ratio,
     pen_l1_ratio |-> c.pen_l1_ratio,
     tol |-> c.tol,
     learning_rate |-> c.learning_rate,
     sample_learning_rate |-> SampleLearningRate(c),
     offset |-> c.offset,
     batch_size |-> c.batch_size,
     solver |-> SolverCodes[c.solver],
     weights |-> WeightsCodes[c.weights],
     subset_sampling |-> SubsetSamplingCodes[c.subset_sampling],
     dict_reduction |-> DictReduction(c),
     reduction |-> c.reduction,
     verbose |-> c.verbose,
     callback |-> IF c.callback = None THEN None ELSE Some("lambda")]

----------------------------------------------------------------------------
\* DictFactImpl (compiled; modelled from its description)

\* DictFactImpl(D, n_samples, n_threads, random_seed, **params): a fresh object,
\* counters at zero, per-sample counters sized n_samples.
ImplNew(D, n_samples, n_threads, random_seed, params) ==
    [D |-> D,
     n_samples |-> n_samples,
     n_threads |-> n_threads,
     random_seed |-> random_seed,
     params |-> params,
     total_counter |-> 0]

\* impl.partial_fit rejects a batch whose width is not the dictionary's
ImplPartialFitOk(im, X) == X.n_features = im.D.shape[2]

\* impl.partial_fit(X, sample_indices): one step per row of X
ImplPartialFit(im, X, sample_indices) ==
    [im EXCEPT !.total_counter = @ + Len(X.rows)]

\* impl.set_impl_params(**params)
ImplSetParams(im, params) == [im EXCEPT !.params = params]

\* impl.transform(X) solves the codes of X against the current dictionary and
\* leaves the object as it is
ImplTransform(im, X) == im

----------------------------------------------------------------------------
\* DictFact.initialized
Initialized(im) == im # None

\* DictFact.total_counter (of an initialized engine)
TotalCounter(im) == im[1].total_counter

\* a generator taken from the process whatever random_state says
CheckRandomStateGlobal(c, g) == [seeded |-> FALSE, v |-> g]

\* check_random_state(self.random_state): a generator seeded with the integer,
\* or numpy's global generator, whose state g is whatever the process left.
CheckRandomState(c, g) ==
    IF c.random_state = None THEN [seeded |-> FALSE, v |-> g]
    ELSE [seeded |-> TRUE, v |-> c.random_state[1]]

\* the shape test of _initialize on a given dict_init
DictInitOk(c, X) ==
    c.dict_init = None \/ c.dict_init = <<c.n_components, X.n_features>>

\* _initialize: the value bound to self._impl
InitializeImpl(c, X, g) ==
    LET n_samples == IF c.n_samples # None THEN c.n_samples[1] ELSE Len(X.rows)
        rs == CheckRandomState(c, g)
        shape == <<c.n_components, X.n_features>>
        D == IF c.dict_init # None
             THEN [shape |-> shape, from |-> "dict_init", rng |-> [seeded |-> TRUE, v |-> 0]]
             ELSE [shape |-> shape, from |-> "randn", rng |-> rs]
        drawn == IF c.dict_init # None THEN 0 ELSE c.n_components * X.n_features
        random_seed == [rng |-> rs, after |-> drawn]
    IN ImplNew(D, n_samples, c.n_threads, random_seed, GetImplParams(c))

\* an _initialize that does not compare dict_init with the shape it needs
InitializeErrNoShape(c, X) == IF ~ImplParamsOk(c) THEN "KeyError" ELSE "none"

\* _initialize: "none" when it returns, else the exception it raises
InitializeErr(c, X) ==
    IF ~DictInitOk(c, X) THEN "ValueError@dict_init"
    ELSE IF ~ImplParamsOk(c) THEN "KeyError"
    ELSE "none"

----------------------------------------------------------------------------
\* DictFact.partial_fit

\* a budget computed one too large
RemainingIterOffByOne(c, im) == c.max_n_iter - im.total_counter + 1

\* remaining_iter = self.max_n_iter - self._impl.total_counter
RemainingIter(c, im) == c.max_n_iter - im.total_counter

\* the truncation skipped once the budget is spent
TruncateUnlessSpent(c, im, X) ==
    IF c.max_n_iter > 0 /\ RemainingIter(c, im) > 0
    THEN [X EXCEPT !.rows = SliceTo(X.rows, RemainingIter(c, im))]
    ELSE X

\* the truncation applied whenever max_n_iter >= 0
TruncateAlways(c, im, X) ==
    IF c.max_n_iter >= 0
    THEN [X EXCEPT !.rows = SliceTo(X.rows, RemainingIter(c, im))]
    ELSE X

\* the rows handed to the implementation: X[:remaining_iter] under a budget
Truncate(c, im, X) ==
    IF c.max_n_iter > 0
    THEN [X EXCEPT !.rows = SliceTo(X.rows, RemainingIter(c, im))]
    ELSE X

\* _initialize run on every call
EnsureImplAlways(c, im, X, g) == InitializeImpl(c, X, g)

\* _initialize run again for a batch of another width
EnsureImplForBatch(c, im, X, g) ==
    IF Initialized(im) /\ (X.n_features = im[1].D.shape[2] \/ InitializeErr(c, X) # "none")
    THEN im[1]
    ELSE InitializeImpl(c, X, g)

\* lines 223-224: self._impl once "if not self.initialized: self._initialize(X)"
\* has run (and returned)
EnsureImpl(c, im, X, g) ==
    IF Initialized(im) THEN im[1] ELSE InitializeImpl(c, X, g)

\* a flag that is honoured on an engine not yet initialized too
CheckInputTrusting(im, check_input) ==
    IF check_input = None THEN TRUE ELSE check_input[1]

\* a flag left unspecified read as False once the engine is initialized
CheckInputDefaultOff(im, check_input) ==
    IF ~Initialized(im) THEN TRUE
    ELSE IF check_input = None THEN FALSE
    ELSE check_input[1]

\* the effective check_input flag
CheckInput(im, check_input) ==
    IF ~Initialized(im) \/ check_input = None THEN TRUE ELSE check_input[1]

\* The whole call. si is the sample_indices argument (None or an array),
\* g the state of the global generator.
\* Result: the exception ("none" if it returns), self._impl afterwards, whether
\* a new object was constructed, whether check_array ran, and what
\* impl.partial_fit was handed.
PartialFit(c, im, X, si, check_input, g) ==
    LET sample_indices == IF si = None THEN Arange(Len(X.rows)) ELSE si[1]
        noCall == [called |-> FALSE, rows |-> << >>, idx |-> << >>]
        checked == CheckInput(im, check_input)
    IN  IF checked /\ ~CheckArrayOk(X)
        THEN [err |-> "ValueError@check_array", impl |-> im, made |-> FALSE,
              checked |-> checked, handed |-> noCall]
        ELSE IF ~Initialized(im) /\ InitializeErr(c, X) # "none"
        THEN [err |-> InitializeErr(c, X), impl |-> im, made |-> FALSE,
              checked |-> checked, handed |-> noCall]
        ELSE
          LET im1 == EnsureImpl(c, im, X, g)
              X1 == Truncate(c, im1, X)
              h == [called |-> TRUE, rows |-> X1.rows, idx |-> sample_indices]
          IN  IF ~ImplPartialFitOk(im1, X1)
              THEN [err |-> "ValueError@impl", impl |-> Some(im1),
                    made |-> ~Initialized(im), checked |-> checked, handed |-> h]
              ELSE [err |-> "none", impl |-> Some(ImplPartialFit(im1, X1, sample_indices)),
                    made |-> ~Initialized(im), checked |-> checked, handed |-> h]

----------------------------------------------------------------------------
\* Inputs

RowLabels(n) == [i \in 1..n |-> i]

\* finite batches of every size, and non-finite ones of the largest size
Batches ==
    [rows : {RowLabels(n) : n \in 0..MaxRows}, n_features : 1..MaxFeatures,
     finite : {TRUE}]
    \cup [rows : {RowLabels(MaxRows)}, n_features : 1..MaxFeatures, finite : {FALSE}]

Reversed(s) == [i \in 1..Len(s) |-> s[Len(s) + 1 - i]]

\* the sample_indices argument for a batch of n rows: absent, or one index per row
SampleIndices(n) == {None, Some(Reversed(Arange(n)))}

CheckInputs == {None, Some(TRUE), Some(FALSE)}

\* states of numpy's global generator, read where check_random_state(None) is
\* reached: by fit always, by partial_fit on its first call
GlobalRng(c, im) ==
    IF c.random_state = None /\ ~Initialized(im) THEN {1, 2} ELSE {1}

\* the attributes as the constructor's defaults leave them (lines 14-41);
\* n_components is scaled down from 30
Defaults ==
    [batch_size |-> 1, learning_rate |-> 10, offset |-> 0,
     sample_learning_rate |-> None, reduction |-> 1, alpha |-> 10,
     l1_ratio |-> 0, pen_l1_ratio |-> 0, tol |-> 0,
     dict_init |-> None, n_components |-> MaxComponents, solver |-> "gram",
     subset_sampling |-> "random", dict_reduction |-> Str("follow"),
     weights |-> "sync", max_n_iter |-> 0, n_epochs |-> 1,
     n_samples |-> None, random_state |-> None, verbose |-> 0,
     n_threads |-> 1, callback |-> None]

\* keyword arguments of set_params calls
ParamDicts ==
    {[max_n_iter |-> v] : v \in 0..MaxIter}
    \cup {[n_epochs |-> v] : v \in 0..MaxEpochs}
    \cup {[n_components |-> 1],
          [n_samples |-> Some(MaxRows)], [n_threads |-> 2],
          [n_samples |-> Some(MaxRows), max_n_iter |-> 1],
          [n_threads |-> 2, batch_size |-> 2],
          [random_state |-> Some(0)],
          [dict_init |-> <<MaxComponents, 1>>],
          [solver |-> "masked"], [solver |-> "bogus"],
          [weights |-> "async_freq"], [weights |-> "async"],
          [subset_sampling |-> "cyclic"],
          [batch_size |-> 2], [reduction |-> 2], [dict_reduction |-> Str("same")],
          [callback |-> Some("cb")]}

\* BaseEstimator.set_params: setattr for each given key
SetAttrs(c, params) ==
    [k \in DOMAIN c |-> IF k \in DOMAIN params THEN params[k] ELSE c[k]]

\* the configurations explored: the defaults, and the defaults with the
\* arguments of one ParamDicts entry changed
Configs == {Defaults} \cup {SetAttrs(Defaults, p) : p \in ParamDicts}

NoHand == [called |-> FALSE, rows |-> << >>, idx |-> << >>]
NoBatch == [rows |-> << >>, n_features |-> 0, finite |-> TRUE]

\* the record of a completed call. made: it constructed a DictFactImpl;
\* sealed: its keyword arguments named n_samples or n_threads; calls: the
\* partial_fit calls a fit issued; n: the rows of the batch it was given
Done(op, err) ==
    [op |-> op, err |-> err, handed |-> NoHand, made |-> FALSE, sealed |-> FALSE,
     calls |-> 0, n |-> 0]

----------------------------------------------------------------------------
\* The engine after construction: DictFact(); a keyword argument of the
\* constructor is the same assignment as set_params makes before the first fit

Init ==
    /\ cfg = Defaults
    /\ impl = None
    /\ pc = "idle"
    /\ fitX = NoBatch
    /\ fitCalls = 0
    /\ last = Done("new", "none")

----------------------------------------------------------------------------
\* DictFact.set_params(**params)

SetParamsErr(c, im, params) ==
    IF Initialized(im) /\ "n_samples" \in DOMAIN params THEN "ValueError@n_samples"
    ELSE IF Initialized(im) /\ "n_threads" \in DOMAIN params THEN "ValueError@n_threads"
    ELSE IF Initialized(im) /\ ~ImplParamsOk(SetAttrs(c, params)) THEN "KeyError"
    ELSE "none"

\* the attributes assigned before the sealed names are looked at
SetParamsCfgEager(c, im, params) == SetAttrs(c, params)

\* the wrapper's attributes after the call
SetParamsCfg(c, im, params) ==
    IF SetParamsErr(c, im, params) \in {"ValueError@n_samples", "ValueError@n_threads"}
    THEN c
    ELSE SetAttrs(c, params)

\* self._impl after the call (_update_impl_params)
SetParamsImpl(c, im, params) ==
    IF Initialized(im) /\ SetParamsErr(c, im, params) = "none"
    THEN Some(ImplSetParams(im[1], GetImplParams(SetAttrs(c, params))))
    ELSE im

SetParams(params) ==
    /\ pc = "idle"
    /\ SetParamsCfg(cfg, impl, params) \in Configs
    /\ cfg' = SetParamsCfg(cfg, impl, params)
    /\ impl' = SetParamsImpl(cfg, impl, params)
    /\ last' = [Done("set_params", SetParamsErr(cfg, impl, params))
                    EXCEPT !.sealed = {"n_samples", "n_threads"} \cap DOMAIN params # {}]
    /\ UNCHANGED <<pc, fitX, fitCalls>>

----------------------------------------------------------------------------
\* DictFact.partial_fit(X, sample_indices, check_input), called by the user

PartialFitCall(X, si, check_input, g) ==
    /\ pc = "idle"
    /\ LET r == PartialFit(cfg, impl, X, si, check_input, g)
       IN  /\ Initialized(r.impl) => TotalCounter(r.impl) <= MaxTotal
           /\ impl' = r.impl
           /\ last' = [Done("partial_fit", r.err) EXCEPT
                         !.handed = r.handed, !.made = r.made, !.n = Len(X.rows)]
    /\ UNCHANGED <<cfg, pc, fitX, fitCalls>>

----------------------------------------------------------------------------
\* DictFact.fit(X)

\* a fit that discards the implementation it has before it builds the next one
FitBeginClears(X, g) ==
    /\ pc = "idle"
    /\ IF ~CheckArrayOk(X)
       THEN /\ last' = Done("fit", "ValueError@check_array")
            /\ UNCHANGED <<impl, pc, fitX, fitCalls>>
       ELSE IF InitializeErr(cfg, X) # "none"
       THEN /\ last' = Done("fit", InitializeErr(cfg, X))
            /\ impl' = None
            /\ UNCHANGED <<pc, fitX, fitCalls>>
       ELSE /\ impl' = Some(InitializeImpl(cfg, X, g))
            /\ pc' = "fit_loop"
            /\ fitX' = X
            /\ fitCalls' = 0
            /\ last' = [Done("fit_init", "none") EXCEPT !.made = TRUE]
    /\ UNCHANGED cfg

\* lines 240-242: check_array, _initialize, the indices; then the loop is entered
FitBegin(X, g) ==
    /\ pc = "idle"
    /\ IF ~CheckArrayOk(X)
       THEN /\ last' = Done("fit", "ValueError@check_array")
            /\ UNCHANGED <<impl, pc, fitX, fitCalls>>
       ELSE IF InitializeErr(cfg, X) # "none"
       THEN /\ last' = Done("fit", InitializeErr(cfg, X))
            /\ UNCHANGED <<impl, pc, fitX, fitCalls>>
       ELSE /\ impl' = Some(InitializeImpl(cfg, X, g))
            /\ pc' = "fit_loop"
            /\ fitX' = X
            /\ fitCalls' = 0
            /\ last' = [Done("fit_init", "none") EXCEPT !.made = TRUE]
    /\ UNCHANGED cfg

\* the while loop comparing with <=
FitLoopCondLe ==
    IF cfg.max_n_iter > 0
    THEN TotalCounter(impl) <= cfg.max_n_iter
    ELSE fitCalls < cfg.n_epochs

\* the condition of the loop that runs: while (243-246) or for (248-250)
FitLoopCond ==
    IF cfg.max_n_iter > 0
    THEN TotalCounter(impl) < cfg.max_n_iter
    ELSE fitCalls < cfg.n_epochs

\* one iteration: self.partial_fit(X, sample_indices=sample_indices, check_input=False)
FitIter ==
    /\ pc = "fit_loop"
    /\ FitLoopCond
    /\ LET r == PartialFit(cfg, impl, fitX, Some(Arange(Len(fitX.rows))),
                           Some(FALSE), 1)
       IN  /\ impl' = r.impl
           /\ IF r.err = "none"
              THEN /\ last' = [Done("partial_fit", "none") EXCEPT
                                 !.handed = r.handed, !.n = Len(fitX.rows)]
                   /\ fitCalls' = fitCalls + 1
                   /\ UNCHANGED <<pc, fitX>>
              ELSE /\ last' = [Done("fit", r.err) EXCEPT !.calls = fitCalls + 1]
                   /\ pc' = "idle"
                   /\ fitX' = NoBatch
                   /\ fitCalls' = 0
    /\ UNCHANGED cfg

\* line 251: return self
FitReturn ==
    /\ pc = "fit_loop"
    /\ ~FitLoopCond
    /\ pc' = "idle"
    /\ last' = [Done("fit", "none") EXCEPT !.calls = fitCalls, !.n = Len(fitX.rows)]
    /\ fitX' = NoBatch
    /\ fitCalls' = 0
    /\ UNCHANGED <<cfg, impl>>

----------------------------------------------------------------------------
\* DictFact.transform(X) and DictFact.score(X)

\* impl.transform rejects a batch whose width is not the dictionary's
ImplTransformOk(im, X) == X.n_features = im.D.shape[2]

\* the batch validated before the engine's state is looked at
TransformErrLate(im, X) ==
    IF ~CheckArrayOk(X) THEN "ValueError@check_array"
    ELSE IF ~Initialized(im) THEN "ValueError@transform"
    ELSE IF ~ImplTransformOk(im[1], X) THEN "ValueError@impl"
    ELSE "none"

TransformErr(im, X) ==
    IF ~Initialized(im) THEN "ValueError@transform"
    ELSE IF ~CheckArrayOk(X) THEN "ValueError@check_array"
    ELSE IF ~ImplTransformOk(im[1], X) THEN "ValueError@impl"
    ELSE "none"

\* a transform that feeds the batch to the statistics
TransformImplLearns(im, X) ==
    IF TransformErr(im, X) = "none"
    THEN Some(ImplPartialFit(im[1], X, Arange(Len(X.rows))))
    ELSE im

\* self._impl after transform(X)
TransformImpl(im, X) ==
    IF TransformErr(im, X) = "none" THEN Some(ImplTransform(im[1], X)) ELSE im

Transform(X) ==
    /\ pc = "idle"
    /\ impl' = TransformImpl(impl, X)
    /\ last' = Done("transform", TransformErr(impl, X))
    /\ UNCHANGED <<cfg, pc, fitX, fitCalls>>

\* score: transform, then the loss from the codes and self.scaled_D
Score(X) ==
    /\ pc = "idle"
    /\ impl' = TransformImpl(impl, X)
    /\ last' = Done("score", TransformErr(impl, X))
    /\ UNCHANGED <<cfg, pc, fitX, fitCalls>>

----------------------------------------------------------------------------
\* The progress callback: _get_impl_params wraps it as
\* "lambda: self.callback(self)", and the implementation calls the lambda
\* when it has processed a mini-batch.

\* the implementation has just run the lambda's trigger: a partial_fit call
\* that handed it at least one row has completed, and a callback is set
ImplCallsBack(im, l) ==
    /\ Initialized(im)
    /\ im[1].params.callback # None
    /\ l.op = "partial_fit" /\ l.err = "none"
    /\ l.handed.called /\ l.handed.rows # << >>

\* what a callback does with the object it is called with: it reads it, as
\* Callback.__call__ of examples/image_denoising.py does (mf.score(X_tr)), or
\* it calls set_params on it
CallbackActs == {None, Some([max_n_iter |-> 1])}

\* self.callback(self): the callback runs on the engine itself
CallbackCall(act, X) ==
    /\ ImplCallsBack(impl, last)
    /\ IF act = None
       THEN /\ impl' = TransformImpl(impl, X)
            /\ last' = Done("callback", TransformErr(impl, X))
            /\ UNCHANGED cfg
       ELSE /\ cfg' = SetParamsCfg(cfg, impl, act[1])
            /\ impl' = SetParamsImpl(cfg, impl, act[1])
            /\ last' = Done("callback", SetParamsErr(cfg, impl, act[1]))
    /\ UNCHANGED <<pc, fitX, fitCalls>>

----------------------------------------------------------------------------
Next ==
    \/ \E params \in ParamDicts : SetParams(params)
    \/ \E X \in Batches : \E si \in SampleIndices(Len(X.rows)), ci \in CheckInputs,
          g \in GlobalRng(cfg, impl) : PartialFitCall(X, si, ci, g)
    \/ \E X \in Batches, g \in GlobalRng(cfg, None) : FitBegin(X, g)
    \/ FitIter
    \/ FitReturn
    \/ \E X \in Batches : Transform(X)
    \/ \E X \in Batches : Score(X)

Spec == Init /\ [][Next]_vars

\* a started fit call keeps running: Python executes the loop to its end
FairSpec == Spec /\ WF_vars(FitIter) /\ WF_vars(FitReturn)

\* the engine together with the callbacks it runs
NextCb ==
    \/ Next
    \/ \E act \in CallbackActs, X \in Batches : CallbackCall(act, X)

CallbackSpec == Init /\ [][NextCb]_vars

----------------------------------------------------------------------------
\* Properties

\* total_counter as a call finds it: a first call reads it after _initialize
PreTotal == IF Initialized(impl) THEN TotalCounter(impl) ELSE 0

\* a call to partial_fit, from the user or from fit, has just completed
PartialFitStep == last'.op = "partial_fit" \/ (last'.op = "fit" /\ last'.calls > 0)

\* errors that reject the batch or the configuration, whatever the budget
InputErrors == {"ValueError@check_array", "ValueError@impl"}
ConfigErrors == {"ValueError@dict_init", "KeyError"}

\* C1: under a budget m = max_n_iter > 0 a partial_fit call hands the
\* implementation at most the m - total_counter rows the budget leaves (none
\* once it is spent), so that no call carries total_counter beyond m.
C1_BudgetRespect ==
    [][(last'.op = "partial_fit" /\ last'.handed.called /\ cfg.max_n_iter > 0)
        => /\ Len(last'.handed.rows) <= Max(0, cfg.max_n_iter - PreTotal)
           /\ (PreTotal <= cfg.max_n_iter /\ Initialized(impl')
                 => impl'[1].total_counter <= cfg.max_n_iter)]_vars

\* C2 as claimed: once the implementation object exists, no call constructs
\* another one or lowers total_counter.
C2_SingleCreation ==
    [][Initialized(impl)
        => /\ ~last'.made
           /\ Initialized(impl')
           /\ impl'[1].total_counter >= impl[1].total_counter]_vars

\* C2 as amended: only the _initialize of a fit call replaces an existing
\* implementation object; partial_fit, set_params, transform and score keep
\* the object, its dictionary's origin, its seed and its sizes, and never
\* lower total_counter.
C2_CreationOnlyByFit ==
    [][(Initialized(impl) /\ last'.op # "fit_init")
        => /\ ~last'.made
           /\ Initialized(impl')
           /\ impl'[1].D = impl[1].D
           /\ impl'[1].random_seed = impl[1].random_seed
           /\ impl'[1].n_samples = impl[1].n_samples
           /\ impl'[1].n_threads = impl[1].n_threads
           /\ impl'[1].total_counter >= impl[1].total_counter]_vars

\* a later partial_fit call has added to the counters of an existing object
C2_Witness ==
    /\ last.op = "partial_fit" /\ last.err = "none" /\ ~last.made
    /\ pc = "idle" /\ Len(last.handed.rows) >= 1
    /\ TotalCounter(impl) > Len(last.handed.rows)

\* C3: a set_params call naming n_samples or n_threads is rejected on an
\* initialized engine, leaving every attribute and the implementation as they
\* were, and is accepted on an uninitialized one.
C3_SealedParams ==
    [][(last'.op = "set_params" /\ last'.sealed)
        => IF Initialized(impl)
           THEN /\ last'.err \in {"ValueError@n_samples", "ValueError@n_threads"}
                /\ cfg' = cfg
                /\ impl' = impl
           ELSE /\ last'.err = "none"
                /\ cfg'.n_samples # None \/ cfg'.n_threads # 1]_vars

\* a call naming n_threads together with batch_size has been rejected
C3_Witness ==
    /\ last.op = "set_params" /\ last.sealed /\ last.err = "ValueError@n_threads"
    /\ Initialized(impl)

\* C4: after a successful set_params on an initialized engine the
\* implementation runs with what the wrapper's attributes say: its parameters
\* are those derived from the attributes, and its dictionary has n_components
\* atoms, comes from dict_init when one is set and from the generator
\* random_state names otherwise.
C4_HotSwap ==
    (last.op = "set_params" /\ last.err = "none" /\ Initialized(impl))
    => /\ impl[1].params = GetImplParams(cfg)
       /\ impl[1].D.shape[1] = cfg.n_components
       /\ (cfg.dict_init # None) = (impl[1].D.from = "dict_init")
       /\ cfg.random_state # None
            => impl[1].random_seed.rng = [seeded |-> TRUE, v |-> cfg.random_state[1]]

\* C5: a transform or score call changes neither the implementation's state
\* (dictionary, statistics, counters) nor the configuration.
C5_TransformReadOnly ==
    [][last'.op \in {"transform", "score"} => (impl' = impl /\ cfg' = cfg)]_vars

\* transform has run on a fitted engine with a batch it accepts
C5_Witness ==
    /\ last.op = "transform" /\ last.err = "none"
    /\ Initialized(impl) /\ TotalCounter(impl) > 0

\* C6: transform and score raise on an engine that has no implementation yet
\* and leave it without one; a successful fit or partial_fit leaves an
\* implementation, which stays, and then they do not raise that error.
C6_TransformBeforeFit ==
    [][/\ last'.op \in {"transform", "score"}
          => IF Initialized(impl)
             THEN last'.err # "ValueError@transform"
             ELSE last'.err = "ValueError@transform" /\ ~Initialized(impl')
       /\ (last'.op \in {"fit", "partial_fit"} /\ last'.err = "none")
          => Initialized(impl')
       /\ Initialized(impl) => Initialized(impl')]_vars

\* score has been refused on an engine never fitted
C6_Witness ==
    /\ last.op = "score" /\ last.err = "ValueError@transform" /\ ~Initialized(impl)

\* C7: a partial_fit call that finds 0 < m - total_counter < n for its n rows
\* raises nothing on account of the budget; when its batch is accepted, the
\* implementation is handed exactly the first m - total_counter rows and
\* total_counter is m afterwards.
C7_Truncates ==
    [][(/\ PartialFitStep
        /\ cfg.max_n_iter > 0
        /\ 0 < cfg.max_n_iter - PreTotal
        /\ cfg.max_n_iter - PreTotal < last'.n)
        => /\ last'.err \in {"none"} \cup InputErrors \cup ConfigErrors
           /\ last'.err = "none"
                => /\ last'.handed.called
                   /\ last'.handed.rows = RowLabels(cfg.max_n_iter - PreTotal)
                   /\ impl'[1].total_counter = cfg.max_n_iter]_vars

\* a batch was cut short and the budget is now spent
C7_Witness ==
    /\ last.op = "partial_fit" /\ last.err = "none" /\ ~last.made
    /\ Len(last.handed.rows) >= 1 /\ Len(last.handed.rows) < last.n
    /\ cfg.max_n_iter > 0 /\ TotalCounter(impl) = cfg.max_n_iter

\* C8 as claimed: partial_fit fails when it finds total_counter at or beyond
\* max_n_iter > 0.
C8_FailsAtCap ==
    [][(/\ last'.op = "partial_fit"
        /\ last'.n >= 1
        /\ Initialized(impl)
        /\ cfg.max_n_iter > 0
        /\ TotalCounter(impl) >= cfg.max_n_iter)
        => last'.err # "none"]_vars

\* C8 as amended: a partial_fit call that finds total_counter at or beyond
\* max_n_iter > 0 raises no error but those that reject its batch; when
\* total_counter equals max_n_iter and the batch is accepted, the call returns
\* having handed the implementation no row and total_counter is unchanged.
C8_DropsAtCap ==
    [][(/\ last'.op = "partial_fit"
        /\ Initialized(impl)
        /\ cfg.max_n_iter > 0
        /\ TotalCounter(impl) >= cfg.max_n_iter)
        => /\ last'.err \in {"none"} \cup InputErrors
           /\ (last'.err = "none" /\ TotalCounter(impl) = cfg.max_n_iter)
                => /\ last'.handed.called
                   /\ last'.handed.rows = << >>
                   /\ impl'[1].total_counter = impl[1].total_counter]_vars

\* a non-empty batch was dropped whole by a call that returned normally
C8_Witness ==
    /\ last.op = "partial_fit" /\ last.err = "none" /\ pc = "idle"
    /\ last.n >= 1 /\ last.handed.called /\ last.handed.rows = << >>
    /\ cfg.max_n_iter > 0 /\ TotalCounter(impl) = cfg.max_n_iter

\* C9: a fit call that has entered its loop leaves it; under a budget m > 0
\* every iteration raises total_counter, and fit returns with total_counter = m.
C9_FitTerminates ==
    /\ (pc = "fit_loop") ~> (pc = "idle")
    /\ [][(pc = "fit_loop" /\ pc' = "fit_loop" /\ cfg.max_n_iter > 0)
            => impl'[1].total_counter > impl[1].total_counter]_vars
    /\ [](last.op = "fit" /\ last.err = "none" /\ cfg.max_n_iter > 0
            => TotalCounter(impl) = cfg.max_n_iter)

\* fit returned under a budget that took more than one pass over the dataset
C9_Witness ==
    /\ last.op = "fit" /\ last.err = "none" /\ last.calls >= 2
    /\ cfg.max_n_iter > 0 /\ TotalCounter(impl) = cfg.max_n_iter

\* C10: with max_n_iter = 0 every partial_fit call hands over its whole batch;
\* the calls fit issues carry the indices 0..n-1; fit returns after n_epochs
\* calls with total_counter = n_epochs * n.
C10_Unbounded ==
    [][cfg.max_n_iter = 0
        => /\ (last'.op = "partial_fit" /\ last'.handed.called)
                => last'.handed.rows = RowLabels(last'.n)
           /\ (last'.op = "partial_fit" /\ pc = "fit_loop")
                => /\ last'.handed.called
                   /\ last'.n = Len(fitX.rows)
                   /\ last'.handed.idx = Arange(last'.n)
           /\ (last'.op = "fit" /\ last'.err = "none")
                => /\ last'.calls = cfg.n_epochs
                   /\ impl'[1].total_counter = cfg.n_epochs * last'.n]_vars

\* fit made two full passes over two rows
C10_Witness ==
    /\ last.op = "fit" /\ last.err = "none" /\ cfg.max_n_iter = 0
    /\ last.calls = 2 /\ last.n = 2 /\ TotalCounter(impl) = 4

\* C11: the engine starts without an implementation; it gets one from a fit
\* or partial_fit call that raises nothing, and from no other call; once it
\* has one it keeps one through every later call, failing or not.
C11_OneWayLifecycle ==
    /\ ~Initialized(impl)
    /\ [][/\ Initialized(impl) => Initialized(impl')
          /\ (~Initialized(impl) /\ Initialized(impl'))
                => /\ last'.op \in {"fit_init", "partial_fit"}
                   /\ last'.err = "none"
                   /\ last'.made
          /\ (last'.op \in {"fit_init", "partial_fit"} /\ last'.err = "none")
                => Initialized(impl')]_vars

\* a fit call has failed in _initialize on an engine that was fitted before
C11_Witness ==
    /\ last.op = "fit" /\ last.err \in ConfigErrors /\ Initialized(impl)

\* C12: with a dict_init of the wrong shape or an unknown solver, weights or
\* subset_sampling, a first partial_fit on a valid batch raises the
\* configuration error, constructs nothing and hands the implementation
\* nothing, so that transform still refuses; fit never gets past _initialize
\* with such a configuration, and when it raises there the implementation
\* the engine had is as it was. No implementation is ever constructed from
\* such a configuration.
C12_ConfigErrorsFirst ==
    /\ [](~Initialized(impl)
            => \A X \in Batches :
                 \A si \in SampleIndices(Len(X.rows)), ci \in CheckInputs :
                   (CheckArrayOk(X) /\ (~DictInitOk(cfg, X) \/ ~ImplParamsOk(cfg)))
                   => LET r == PartialFit(cfg, impl, X, si, ci, 1)
                      IN  /\ r.err \in ConfigErrors
                          /\ r.impl = None
                          /\ ~r.made
                          /\ ~r.handed.called
                          /\ TransformErr(r.impl, X) = "ValueError@transform")
    /\ [][/\ (last'.op \in {"fit", "partial_fit"} /\ last'.err \in ConfigErrors)
                => (impl' = impl /\ ~last'.made)
          /\ last'.op = "fit_init"
                => (DictInitOk(cfg, fitX') /\ ImplParamsOk(cfg))
          /\ last'.made
                => /\ ImplParamsOk(cfg)
                   /\ cfg.dict_init # None => cfg.dict_init = impl'[1].D.shape]_vars

\* a first partial_fit was refused for the shape of dict_init
C12_Witness ==
    /\ last.op = "partial_fit" /\ last.err = "ValueError@dict_init"
    /\ last.n >= 1 /\ ~Initialized(impl)

\* C13: a set_params call on an initialized engine that raises for an unknown
\* solver, weights or subset_sampling leaves the wrapper's attributes and the
\* implementation's parameters exactly as they were.
C13_FailedHotSwap ==
    [][(last'.op = "set_params" /\ Initialized(impl) /\ last'.err = "KeyError")
        => (cfg' = cfg /\ impl' = impl)]_vars

\* C14: while solver is one of masked, gram, average, weights one of sync,
\* async and subset_sampling one of random, cyclic, no set_params, partial_fit
\* or fit call raises the error of an unknown enumeration value.
C14_DocumentedEnums ==
    [][(/\ cfg'.solver \in {"masked", "gram", "average"}
        /\ cfg'.weights \in {"sync", "async"}
        /\ cfg'.subset_sampling \in {"random", "cyclic"}
        /\ last'.op \in {"set_params", "partial_fit", "fit", "fit_init"})
        => last'.err # "KeyError"]_vars

\* C15 as claimed: whatever the engine's state and the check_input argument,
\* a partial_fit call on a batch with a non-finite value raises the input
\* error, hands the implementation nothing and leaves it as it was.
C15_NonFiniteRejected ==
    pc = "idle"
    => \A X \in Batches :
         \A si \in SampleIndices(Len(X.rows)), ci \in CheckInputs :
           ~X.finite
           => LET r == PartialFit(cfg, impl, X, si, ci, 1)
              IN  /\ r.err = "ValueError@check_array"
                  /\ ~r.handed.called
                  /\ r.impl = impl

\* C15 as amended: a partial_fit call on a batch with a non-finite value
\* raises the input error, hands the implementation nothing and leaves it as
\* it was whenever the engine is not initialized or check_input is not False;
\* on an initialized engine with check_input=False the batch is not looked at
\* and, its width fitting, is handed to the implementation. fit validates
\* its batch always and loops over finite batches only.
C15_NonFiniteChecked ==
    /\ [](pc = "idle"
            => \A X \in Batches :
                 \A si \in SampleIndices(Len(X.rows)), ci \in CheckInputs :
                   ~X.finite
                   => LET r == PartialFit(cfg, impl, X, si, ci, 1)
                      IN  IF ~Initialized(impl) \/ ci # Some(FALSE)
                          THEN /\ r.checked
                               /\ r.err = "ValueError@check_array"
                               /\ ~r.handed.called
                               /\ r.impl = impl
                          ELSE /\ ~r.checked
                               /\ r.err # "ValueError@check_array"
                               /\ r.handed.called
                               /\ ImplPartialFitOk(impl[1], X)
                                    => r.handed.rows # << >> \/ cfg.max_n_iter > 0)
    /\ [](pc = "fit_loop" => fitX.finite)
    /\ [][(last'.op \in {"fit", "partial_fit"} /\ last'.err = "ValueError@check_array")
            => impl' = impl]_vars

\* a batch with a non-finite value was refused by an initialized engine
C15_Witness ==
    /\ last.op = "partial_fit" /\ last.err = "ValueError@check_array"
    /\ last.n >= 1 /\ Initialized(impl) /\ TotalCounter(impl) > 0

\* C16: with an integer random_state and one thread, what a call leaves
\* depends on the engine's state and the call's arguments only, not on the
\* state g of the process's generator: partial_fit gives the same result for
\* every g, the object a fit or a first partial_fit constructs is the one
\* _initialize builds for every g, and the generator it drew its dictionary
\* and seed from is the one seeded with random_state. Two engines built and
\* driven alike are therefore in the same state after every call.
C16_Reproducible ==
    /\ []((pc = "idle" /\ cfg.random_state # None /\ cfg.n_threads = 1)
            => \A X \in Batches :
                 \A si \in SampleIndices(Len(X.rows)), ci \in CheckInputs :
                   \A g1, g2 \in GlobalRng(Defaults, None) :
                     PartialFit(cfg, impl, X, si, ci, g1)
                       = PartialFit(cfg, impl, X, si, ci, g2))
    /\ [][(last'.made /\ cfg.random_state # None /\ cfg.n_threads = 1)
            => \A g \in GlobalRng(Defaults, None) :
                 LET X == IF last'.op = "fit_init" THEN fitX'
                          ELSE [rows |-> RowLabels(last'.n),
                                n_features |-> impl'[1].D.shape[2],
                                finite |-> TRUE]
                     im == InitializeImpl(cfg, X, g)
                 IN  /\ impl'[1].D = im.D
                     /\ impl'[1].random_seed = im.random_seed
                     /\ impl'[1].n_samples = im.n_samples
                     /\ impl'[1].params = im.params
                     /\ impl'[1].random_seed.rng
                          = [seeded |-> TRUE, v |-> cfg.random_state[1]]
                     /\ impl'[1].D.from = "randn"
                          => impl'[1].D.rng = impl'[1].random_seed.rng]_vars

\* an engine constructed under an integer random_state has learnt from a batch
C16_Witness ==
    /\ last.op = "partial_fit" /\ last.err = "none" /\ last.made
    /\ cfg.random_state # None /\ cfg.n_threads = 1
    /\ impl[1].random_seed.rng.seeded /\ impl[1].D.from = "randn"
    /\ TotalCounter(impl) > 0

C18_CallbackObserver ==
    [][last'.op = "callback" => (cfg' = cfg /\ impl' = impl)]_vars

\* C19: a partial_fit call that finds total_counter at or beyond
\* max_n_iter > 0, and whose batch is accepted, hands the implementation no
\* row and leaves total_counter where it was.
C19_SpentBudgetDrops ==
    [][(/\ PartialFitStep
        /\ Initialized(impl)
        /\ cfg.max_n_iter > 0
        /\ TotalCounter(impl) >= cfg.max_n_iter
        /\ last'.err = "none")
        => /\ last'.handed.rows = << >>
           /\ impl' = impl]_vars

\* C20: what a partial_fit call hands the implementation is a batch and an
\* index array of the same length: the leading rows of the batch it was
\* given, each with the index given (or defaulted) for it.
C20_RowsIndicesPaired ==
    [][(PartialFitStep /\ last'.handed.called)
        => /\ Len(last'.handed.idx) = Len(last'.handed.rows)
           /\ last'.handed.rows = RowLabels(Len(last'.handed.rows))
           /\ Len(last'.handed.rows) <= last'.n]_vars

\* C21: an implementation object is constructed with per-sample counters for
\* the declared n_samples, or for the rows of the batch that initializes it
\* when none is declared; that size stays while the object lives; and every
\* index a partial_fit call hands over is one of 0 .. size - 1.
C21_SampleCounterSize ==
    [][/\ last'.made
            => impl'[1].n_samples
                 = (IF cfg.n_samples # None THEN cfg.n_samples[1]
                    ELSE IF last'.op = "fit_init" THEN Len(fitX'.rows)
                    ELSE last'.n)
       /\ (Initialized(impl) /\ last'.op # "fit_init")
            => impl'[1].n_samples = impl[1].n_samples
       /\ (PartialFitStep /\ last'.handed.called)
            => \A i \in 1..Len(last'.handed.idx) :
                 /\ last'.handed.idx[i] >= 0
                 /\ last'.handed.idx[i] < impl'[1].n_samples]_vars

\* C22: partial_fit runs check_array on its batch exactly when the engine is
\* not initialized or check_input is not False; a batch that check_array
\* refuses then stops the call before anything is constructed or handed
\* over, so the call that constructs the implementation has validated its
\* batch. The calls fit issues, on the batch fit validated, skip the check.
C22_ValidationGating ==
    /\ [](pc = "idle"
            => \A X \in Batches :
                 \A si \in SampleIndices(Len(X.rows)), ci \in CheckInputs :
                   LET r == PartialFit(cfg, impl, X, si, ci, 1)
                   IN  /\ r.checked = (~Initialized(impl) \/ ci # Some(FALSE))
                       /\ (r.checked /\ ~CheckArrayOk(X))
                            => /\ r.err = "ValueError@check_array"
                               /\ r.impl = impl
                               /\ ~r.handed.called
                       /\ (~r.checked /\ ~CheckArrayOk(X))
                            => r.err # "ValueError@check_array" /\ r.handed.called
                       /\ r.made => (r.checked /\ CheckArrayOk(X)))
    /\ [](pc = "fit_loop"
            => /\ CheckArrayOk(fitX)
               /\ ~PartialFit(cfg, impl, fitX, Some(Arange(Len(fitX.rows))),
                              Some(FALSE), 1).checked)
    /\ [][(last'.made /\ last'.op = "partial_fit") => last'.n >= 1]_vars

\* an initialized engine was handed a batch check_array would have refused:
\* one without rows, passed with check_input=False
C22_Witness ==
    /\ last.op = "partial_fit" /\ last.err = "none" /\ pc = "idle"
    /\ last.n = 0 /\ last.handed.called /\ Initialized(impl)
    /\ cfg.max_n_iter = 0

====
